---- MODULE Spec2Model ----
(***************************************************************************)
(* A model of scripts/azure_idle_report.py: the per-subscription loop of   *)
(* main(), the AKS classifier, the cost join and the report totals.        *)
(*                                                                         *)
(* Python strings whose characters matter (resource ids, names, resource  *)
(* groups) are sequences of one-character strings; None is the sentinel    *)
(* NoneStr.  An optional cost is a sequence of length at most one: <<>> is *)
(* None and <<c>> is the amount c, counted in hundredths of a currency     *)
(* unit so that the sums of the code are exact.                            *)
(***************************************************************************)
EXTENDS Integers, Sequences, FiniteSets, TLC

\* ------------------------------------------------------------------ bounds
MaxSubs == 2      \* subscriptions listed for the tenant
MaxRecs == 2      \* records the collectors return over one run

\* ----------------------------------------------------------------- strings
NoneStr == <<"None">>
NoCost == <<>>
NoCurrency == "None"

Uppers == <<"A","B","C","D","E","F","G","H","I","J","K","L","M",
            "N","O","P","Q","R","S","T","U","V","W","X","Y","Z">>
Lowers == <<"a","b","c","d","e","f","g","h","i","j","k","l","m",
            "n","o","p","q","r","s","t","u","v","w","x","y","z">>

LowerTable == [c \in {Uppers[k] : k \in 1..Len(Uppers)} |->
                 Lowers[CHOOSE k \in 1..Len(Uppers) : Uppers[k] = c]]

\* str.lower() on one character
LowerChar(c) == IF c \in DOMAIN LowerTable THEN LowerTable[c] ELSE c

\* str.lower()
lower(s) == [i \in 1..Len(s) |-> LowerChar(s[i])]

\* the idiom (x or ""): None and "" both become ""
OrEmpty(s) == IF s = NoneStr THEN <<>> ELSE s

\* truthiness of an optional string: None and "" are falsy
Truthy(s) == s # NoneStr /\ s # <<>>

\* s.startswith(p)
startswith(s, p) == Len(p) <= Len(s) /\ SubSeq(s, 1, Len(p)) = p

\* p in s
contains(s, p) ==
  \E i \in 1..(Len(s) + 1) :
    i + Len(p) - 1 <= Len(s) /\ SubSeq(s, i, i + Len(p) - 1) = p

\* ------------------------------------------------------------- classifier
\* a literal of the pattern matched at position i under re.IGNORECASE
MatchAt(s, i, lit) ==
  /\ i >= 1
  /\ i + Len(lit) - 1 <= Len(s)
  /\ \A j \in 1..Len(lit) : LowerChar(s[i + j - 1]) = LowerChar(lit[j])

\* the character class [_\-] at position i
DelimAt(s, i) == i >= 1 /\ i <= Len(s) /\ s[i] \in {"_", "-"}

\* the pattern with the ^ of its first alternative lost
AksRgPatternMutNoAnchor(rg) ==
  \/ \E i \in 1..Len(rg) : MatchAt(rg, i, <<"M","C","_">>)
  \/ \E i \in 1..Len(rg) :
       DelimAt(rg, i) /\ MatchAt(rg, i + 1, <<"a","k","s">>) /\ DelimAt(rg, i + 4)
  \/ MatchAt(rg, 1, <<"a","k","s">>) /\ DelimAt(rg, 4)
  \/ \E i \in 1..Len(rg) :
       DelimAt(rg, i) /\ MatchAt(rg, i + 1, <<"a","k","s">>) /\ i + 3 = Len(rg)

\* _AKS_RG_PATTERN.search(rg): some alternative matches at some position
AksRgPattern(rg) ==
  \/ MatchAt(rg, 1, <<"M","C","_">>)
  \/ \E i \in 1..Len(rg) :
       DelimAt(rg, i) /\ MatchAt(rg, i + 1, <<"a","k","s">>) /\ DelimAt(rg, i + 4)
  \/ MatchAt(rg, 1, <<"a","k","s">>) /\ DelimAt(rg, 4)
  \/ \E i \in 1..Len(rg) :
       DelimAt(rg, i) /\ MatchAt(rg, i + 1, <<"a","k","s">>) /\ i + 3 = Len(rg)

is_aks_related(name, resource_group) ==
  LET n  == lower(OrEmpty(name))
      rg == OrEmpty(resource_group)
  IN  \/ AksRgPattern(rg)
      \/ startswith(n, <<"p","v","c","-">>)
      \/ contains(n, <<"k","u","b","e">>)
      \/ contains(n, <<"k","u","b","e","-","a","p","i","s","e","r","v","e","r",".","n","i","c">>)
      \/ contains(n, <<"-","p","e","-">>)

\* ------------------------------------------------------------ cost lookup
\* the row loop of get_cost_map_last30d_by_resource_id: rows are records
\* [rid, cost, currency] (the columns already resolved by name); a later row
\* with the same lower-cased id overwrites an earlier one
CostMapOfRows(rows) ==
  LET kept == {i \in 1..Len(rows) : Truthy(rows[i].rid)}
      keys == {lower(rows[i].rid) : i \in kept}
      last(k) == CHOOSE i \in kept :
                   /\ lower(rows[i].rid) = k
                   /\ \A j \in kept : lower(rows[j].rid) = k => j <= i
  IN  [k \in keys |-> IF rows[last(k)].cost = NoCost THEN 0 ELSE rows[last(k)].cost[1]]

\* the currency the row loop leaves: that of the last row, None without rows
CurrencyOfRows(rows) ==
  IF Len(rows) = 0 THEN NoCurrency ELSE rows[Len(rows)].currency

EmptyCostMap == [k \in {} |-> 0]

\* cost_map.get(key)
DictGet(cost_map, key) ==
  IF key \in DOMAIN cost_map THEN <<cost_map[key]>> ELSE NoCost

\* get_cost, the closure of main() over args.no_cost and cost_map
get_cost(no_cost, cost_map, resource_id) ==
  IF no_cost \/ ~Truthy(resource_id) THEN NoCost
  ELSE DictGet(cost_map, lower(resource_id))

\* accumulate_cost, the closure of main() over cost_immediate and cost_review;
\* st carries the locals of one loop iteration
accumulate_cost(st, cost_val, bucket) ==
  IF cost_val = NoCost THEN st
  ELSE IF bucket = "immediate"
       THEN [st EXCEPT !.cost_immediate = @ + cost_val[1]]
       ELSE [st EXCEPT !.cost_review = @ + cost_val[1]]

\* the item dict the per-kind loops build (the fields the report joins on)
Item(resourceType, r, cost_val, currency) ==
  [resourceType  |-> resourceType,
   name          |-> r.name,
   resourceGroup |-> r.resourceGroup,
   resourceId    |-> r.id,
   costLast30d   |-> cost_val,
   currency      |-> currency]

Bump(st, key) == [st EXCEPT !.grand_counts[key] = @ + 1]

\* a disk loop that counts every disk as an immediate disk
DiskStepMutCount(ctx, st, d) ==
  LET cost_val == get_cost(ctx.no_cost, ctx.cost_map, d.id)
      item     == Item("disk", d, cost_val, ctx.currency)
  IN  IF is_aks_related(d.name, d.resourceGroup)
      THEN Bump([accumulate_cost(st, cost_val, "review")
                   EXCEPT !.review_items = Append(@, item)], "immediate_disks")
      ELSE Bump([accumulate_cost(st, cost_val, "immediate")
                   EXCEPT !.immediate_items = Append(@, item)], "immediate_disks")

\* one iteration of "for d in orphan_disks"
DiskStep(ctx, st, d) ==
  LET cost_val == get_cost(ctx.no_cost, ctx.cost_map, d.id)
      item     == Item("disk", d, cost_val, ctx.currency)
  IN  IF is_aks_related(d.name, d.resourceGroup)
      THEN Bump([accumulate_cost(st, cost_val, "review")
                   EXCEPT !.review_items = Append(@, item)], "aks_review_disks")
      ELSE Bump([accumulate_cost(st, cost_val, "immediate")
                   EXCEPT !.immediate_items = Append(@, item)], "immediate_disks")

\* a public-IP loop that runs the classifier as the disk loop does
PipStepMutClassified(ctx, st, p) ==
  LET cost_val == get_cost(ctx.no_cost, ctx.cost_map, p.id)
      item     == Item("publicIp", p, cost_val, ctx.currency)
  IN  IF is_aks_related(p.name, p.resourceGroup)
      THEN Bump([accumulate_cost(st, cost_val, "review")
                   EXCEPT !.review_items = Append(@, item)], "immediate_pips")
      ELSE Bump([accumulate_cost(st, cost_val, "immediate")
                   EXCEPT !.immediate_items = Append(@, item)], "immediate_pips")

\* one iteration of "for p in public_ips"
PipStep(ctx, st, p) ==
  LET cost_val == get_cost(ctx.no_cost, ctx.cost_map, p.id)
      item     == Item("publicIp", p, cost_val, ctx.currency)
  IN  Bump([accumulate_cost(st, cost_val, "immediate")
              EXCEPT !.immediate_items = Append(@, item)], "immediate_pips")

\* one iteration of "for n in nics": the else branch accumulates no cost
NicStep(ctx, st, n) ==
  LET cost_val == get_cost(ctx.no_cost, ctx.cost_map, n.id)
      item     == Item("nic", n, cost_val, ctx.currency)
  IN  IF is_aks_related(n.name, n.resourceGroup)
      THEN Bump([accumulate_cost(st, cost_val, "review")
                   EXCEPT !.review_items = Append(@, item)], "aks_review_nics")
      ELSE Bump([st EXCEPT !.immediate_items = Append(@, item)], "immediate_nics")

\* one iteration of "for v in vms_waste"
VmStep(ctx, st, v) ==
  LET cost_val == get_cost(ctx.no_cost, ctx.cost_map, v.id)
      item     == Item("vm", v, cost_val, ctx.currency)
  IN  Bump([accumulate_cost(st, cost_val, "immediate")
              EXCEPT !.immediate_items = Append(@, item)], "immediate_vms")

\* one iteration of "for sshot in snapshots_old": costLast30d is the literal None
SnapStep(ctx, st, sshot) ==
  LET item == Item("snapshot", sshot, NoCost, ctx.currency)
  IN  Bump([st EXCEPT !.snapshot_items = Append(@, item)], "snapshots_old")

\* --------------------------------------------------------------- collectors
\* the merge loop of get_orphaned_disks: first occurrence per lower-cased id,
\* records without an id dropped
\* a merge that compares the ids as they are spelled
get_orphaned_disksMutCaseSensitive(by_managed, by_state) ==
  LET all == by_managed \o by_state
      rid(k) == OrEmpty(all[k].id)
      keep(k) == rid(k) # <<>> /\ \A j \in 1..(k - 1) : rid(j) # rid(k)
      f[k \in 0..Len(all)] ==
        IF k = 0 THEN <<>>
        ELSE IF keep(k) THEN Append(f[k - 1], all[k]) ELSE f[k - 1]
  IN  f[Len(all)]

get_orphaned_disks(by_managed, by_state) ==
  LET all == by_managed \o by_state
      rid(k) == lower(OrEmpty(all[k].id))
      keep(k) == rid(k) # <<>> /\ \A j \in 1..(k - 1) : rid(j) # rid(k)
      f[k \in 0..Len(all)] ==
        IF k = 0 THEN <<>>
        ELSE IF keep(k) THEN Append(f[k - 1], all[k]) ELSE f[k - 1]
  IN  f[Len(all)]

\* ------------------------------------------------------------ one iteration
ZeroCounts ==
  [immediate_disks |-> 0, immediate_pips |-> 0, immediate_vms |-> 0,
   aks_review_disks |-> 0, aks_review_nics |-> 0, immediate_nics |-> 0,
   snapshots_old |-> 0]

\* the five per-kind loops of main(), in the order of the code; st0 holds the
\* fresh locals of the iteration and the run's grand_counts
RunLoops(ctx, st0, inv) ==
  LET disks[k \in 0..Len(inv.orphan_disks)] ==
        IF k = 0 THEN st0 ELSE DiskStep(ctx, disks[k - 1], inv.orphan_disks[k])
      pips[k \in 0..Len(inv.public_ips)] ==
        IF k = 0 THEN disks[Len(inv.orphan_disks)]
        ELSE PipStep(ctx, pips[k - 1], inv.public_ips[k])
      nics[k \in 0..Len(inv.nics)] ==
        IF k = 0 THEN pips[Len(inv.public_ips)]
        ELSE NicStep(ctx, nics[k - 1], inv.nics[k])
      vms[k \in 0..Len(inv.vms_waste)] ==
        IF k = 0 THEN nics[Len(inv.nics)]
        ELSE VmStep(ctx, vms[k - 1], inv.vms_waste[k])
      snaps[k \in 0..Len(inv.snapshots_old)] ==
        IF k = 0 THEN vms[Len(inv.vms_waste)]
        ELSE SnapStep(ctx, snaps[k - 1], inv.snapshots_old[k])
  IN  IF ctx.include_snapshots
      THEN snaps[Len(inv.snapshots_old)]
      ELSE vms[Len(inv.vms_waste)]

\* build_findings: one entry per item, the immediate items first, then the
\* review items, then the snapshot items
Entry(subscription_name, subscription_id, bucket, item) ==
  [subscription   |-> subscription_name,
   subscriptionId |-> subscription_id,
   bucket         |-> bucket,
   resourceType   |-> item.resourceType,
   name           |-> item.name,
   resourceGroup  |-> item.resourceGroup,
   resourceId     |-> item.resourceId,
   costLast30d    |-> item.costLast30d,
   currency       |-> item.currency]

\* a build_findings that forgets the third list
build_findingsMutDropSnapshots(subscription_name, subscription_id, immediate_lines, review_lines, snapshot_lines) ==
  [k \in 1..Len(immediate_lines) |->
     Entry(subscription_name, subscription_id, "immediate", immediate_lines[k])]
  \o [k \in 1..Len(review_lines) |->
     Entry(subscription_name, subscription_id, "aks_review", review_lines[k])]

\* a build_findings that puts the review items first
build_findingsMutReviewFirst(subscription_name, subscription_id, immediate_lines, review_lines, snapshot_lines) ==
  [k \in 1..Len(review_lines) |->
     Entry(subscription_name, subscription_id, "aks_review", review_lines[k])]
  \o [k \in 1..Len(immediate_lines) |->
     Entry(subscription_name, subscription_id, "immediate", immediate_lines[k])]
  \o [k \in 1..Len(snapshot_lines) |->
     Entry(subscription_name, subscription_id, "snapshot_review", snapshot_lines[k])]

build_findings(subscription_name, subscription_id, immediate_lines, review_lines, snapshot_lines) ==
  [k \in 1..Len(immediate_lines) |->
     Entry(subscription_name, subscription_id, "immediate", immediate_lines[k])]
  \o [k \in 1..Len(review_lines) |->
     Entry(subscription_name, subscription_id, "aks_review", review_lines[k])]
  \o [k \in 1..Len(snapshot_lines) |->
     Entry(subscription_name, subscription_id, "snapshot_review", snapshot_lines[k])]

\* ------------------------------------------------------------ subscriptions
\* subscription names, ids and states are Python strings too: sequences of
\* one-character strings, None being NoneStr
NoName == NoneStr

Whitespace == {" ", "\t"}

\* str.strip()
strip(s) ==
  LET solid == {k \in 1..Len(s) : s[k] \notin Whitespace}
  IN  IF solid = {} THEN <<>>
      ELSE SubSeq(s, CHOOSE k \in solid : \A j \in solid : k <= j,
                     CHOOSE k \in solid : \A j \in solid : j <= k)

\* (sub.get("name") or "").strip()
NameOrEmpty(x) == strip(OrEmpty(x))

\* a list_subscriptions that compares the state as it is spelled
list_subscriptionsMutCaseSensitive(listing) ==
  SelectSeq(listing, LAMBDA s : OrEmpty(s.state) = <<"E","n","a","b","l","e","d">>)

\* list_subscriptions: the entries of "az account list --all" whose state is
\* "enabled" in any case
list_subscriptions(listing) ==
  SelectSeq(listing, LAMBDA s : lower(OrEmpty(s.state)) = <<"e","n","a","b","l","e","d">>)

\* sub_matches: by name or by id
sub_matches(sub, names_or_ids) ==
  NameOrEmpty(sub.name) \in names_or_ids \/ NameOrEmpty(sub.id) \in names_or_ids

\* sub_name = s.get("name") or sub_id or "Unknown"
SubName(sub) ==
  IF Truthy(sub.name) THEN sub.name
  ELSE IF Truthy(sub.id) THEN sub.id ELSE <<"U","n","k","n","o","w","n">>

\* the two "continue" tests at the head of the loop body
Skipped(sub, only, skip) ==
  \/ only # {} /\ ~sub_matches(sub, only)
  \/ sub_matches(sub, skip)

\* ------------------------------------------------------------- environment
\* what the Azure CLI may answer: a small catalogue per resource kind.  The
\* names and resource groups are chosen so that both outcomes of the
\* classifier occur for disks and NICs, and so that a public IP, a VM and a
\* snapshot carry AKS-looking names
Rec(id, name, resourceGroup) ==
  [id |-> id, name |-> name, resourceGroup |-> resourceGroup]

DiskA    == Rec(<<"D","1">>, <<"p","v","c","-","1">>, <<"r","g">>)
DiskAlow == Rec(<<"d","1">>, <<"p","v","c","-","1">>, <<"r","g">>)
DiskB    == Rec(<<"d","2">>, <<"d">>, <<"f","l","a","s","k","s">>)
PipA     == Rec(<<"P","1">>, <<"k","u","b","e">>, <<"M","C","_","x">>)
NicA     == Rec(<<"N","1">>, <<"n">>, <<"r","g","-","a","k","s">>)
NicB     == Rec(<<"n","2">>, <<"n">>, <<"t","a","s","k","s","-","p","r","o","d">>)
VmA      == Rec(<<"V","1">>, <<"k","u","b","e">>, <<"r","g">>)
VmNoId   == Rec(NoneStr, NoneStr, <<"a","k","s","-","x">>)
SnapA    == Rec(<<"S","1">>, <<"p","v","c","-","s">>, <<"M","C","_","x">>)

ByManagedCatalog == {DiskA, DiskB}
ByStateCatalog   == {DiskAlow}
PipCatalog       == {PipA}
NicCatalog       == {NicA, NicB}
VmCatalog        == {VmA, VmNoId}
SnapCatalog      == {SnapA}

\* the rows of a cost response in one currency, the amounts scaled by k; the
\* ids are cased differently from the inventory's
Row(rid, cost, cur) == [rid |-> rid, cost |-> cost, currency |-> cur]

CostRows(cur, k) ==
  << Row(<<"d","1">>, <<1 * k>>, cur),
     Row(<<"D","2">>, <<10 * k>>, cur),
     Row(<<"p","1">>, <<100 * k>>, cur),
     Row(<<>>, <<7 * k>>, cur),
     Row(<<"n","1">>, <<1000 * k>>, cur),
     Row(<<"N","2">>, <<10000 * k>>, cur),
     Row(<<"v","1">>, <<100000 * k>>, cur),
     Row(<<"s","1">>, <<1000000 * k>>, cur) >>

\* a cost response: the query failed, or answered with the rows of one
\* currency; NotQueried stands for --no-cost
CostOk(cur, k) == [queried |-> TRUE, ok |-> TRUE, currency |-> cur, scale |-> k]
CostFailed     == [queried |-> TRUE, ok |-> FALSE, currency |-> NoCurrency, scale |-> 0]
NotQueried     == [queried |-> FALSE, ok |-> FALSE, currency |-> NoCurrency, scale |-> 0]

RowsOf(resp) == IF resp.ok THEN CostRows(resp.currency, resp.scale) ELSE <<>>

\* the cost data of a subscription: its own currency and amounts
CostResponses(sub) == {CostFailed, CostOk(sub.billing, sub.scale)}

SeqsUpTo(S, n) == UNION {[1..k -> S] : k \in 0..n}

\* an entry of "az account list --all"; billing and scale say what the cost
\* query of the subscription answers
Sub(id, name, state, billing, scale) ==
  [id |-> id, name |-> name, state |-> state, billing |-> billing, scale |-> scale]

S_Prod == <<"P","r","o","d">>
S_Dev  == <<"D","e","v">>

\* the enabled subscriptions of the tenant, their state spelled in several
\* cases; the name of the second one is padded with a blank
SubCatalog ==
  << Sub(<<"s","1">>, S_Prod, <<"E","n","a","b","l","e","d">>, "GBP", 1),
     Sub(<<"s","2">>, S_Dev \o <<" ">>, <<"E","N","A","B","L","E","D">>, "USD", 2),
     Sub(<<"s","3">>, NoName, <<"e","n","a","b","l","e","d">>, "GBP", 3),
     Sub(<<"s","4">>, S_Prod, <<"E","n","a","b","l","e","d">>, "USD", 4) >>

\* subscriptions of the tenant that are not enabled
SubDisabled == Sub(<<"s","8">>, S_Prod, <<"D","i","s","a","b","l","e","d">>, "GBP", 1)
SubNoState  == Sub(<<"s","9">>, S_Dev, NoneStr, "USD", 1)

\* az account list --all: MaxSubs enabled subscriptions among others
AccountList ==
  << SubDisabled, SubCatalog[1], SubNoState >> \o SubSeq(SubCatalog, 2, MaxSubs)

\* --only-subs / --skip-subs, split at the commas and stripped
Filters ==
  { [only |-> {}, skip |-> {}],
    [only |-> {S_Prod, S_Dev}, skip |-> {<<"s","1">>}] }

\* -------------------------------------------------------------------- state
VARIABLES
  args,                  \* the parsed command line
  subs,                  \* list_subscriptions()
  i,                     \* position of the for loop in subs
  pc,                    \* "loop", "done" (report printed), "aborted"
  grand_counts, grand_cost_immediate, grand_cost_review, grand_currency,
  all_findings,
  cost_map, currency,    \* the locals of the latest loop iteration
  immediate_items, review_items, snapshot_items,
  cost_immediate, cost_review,
  stdout,                \* what has been printed to standard output
  stderr,                \* what has been printed to standard error
  responses,             \* what the CLI answered, one entry per scanned subscription
  classified,            \* a call of is_aks_related on its own: arguments and result
  lookup,                \* a call of get_cost_map_last30d_by_resource_id on its own
  merged,                \* a call of get_orphaned_disks on its own
  aged                   \* a call of get_snapshots_older_than_days on its own

vars ==
  << args, subs, i, pc, grand_counts, grand_cost_immediate, grand_cost_review,
     grand_currency, all_findings, cost_map, currency, immediate_items,
     review_items, snapshot_items, cost_immediate, cost_review, stdout, stderr,
     responses, classified, lookup, merged, aged >>

\* the calls that are studied on their own
callVars == << lookup, merged, aged >>

NotClassified ==
  [called |-> FALSE, name |-> NoneStr, resource_group |-> NoneStr, result |-> FALSE]

NoLink == <<>>

\* the lookup before its first request: all_rows = [], cols = []
NoLookup ==
  [pc |-> "idle", cols |-> <<>>, all_rows |-> <<>>, next_link |-> NoLink,
   requests |-> <<>>, cost_map |-> EmptyCostMap, currency |-> NoCurrency]

NotMerged == [called |-> FALSE, by_managed |-> <<>>, by_state |-> <<>>, result |-> <<>>]

NotAged ==
  [called |-> FALSE, days |-> 0, now |-> 0, later |-> 0, snaps |-> <<>>, out |-> <<>>]

is_structured == args.output_format \in {"json", "csv"}

Init ==
  /\ args \in { [output_format |-> f, no_cost |-> nc, include_snapshots |-> sn,
                 only |-> flt.only, skip |-> flt.skip] :
                f \in {"text", "json", "csv"}, nc \in BOOLEAN, sn \in BOOLEAN,
                flt \in Filters }
  /\ subs = list_subscriptions(AccountList)
  /\ i = 1
  /\ pc = "loop"
  /\ grand_counts = ZeroCounts
  /\ grand_cost_immediate = 0
  /\ grand_cost_review = 0
  /\ grand_currency = NoCurrency
  /\ all_findings = <<>>
  /\ cost_map = EmptyCostMap
  /\ currency = NoCurrency
  /\ immediate_items = <<>>
  /\ review_items = <<>>
  /\ snapshot_items = <<>>
  /\ cost_immediate = 0
  /\ cost_review = 0
  /\ stdout = IF args.output_format = "text"
              THEN << [kind |-> "header", subscriptions |-> Len(subs)] >>
              ELSE <<>>
  /\ stderr = <<>>
  /\ responses = <<>>
  /\ classified = NotClassified
  /\ lookup = NoLookup
  /\ merged = NotMerged
  /\ aged = NotAged

\* ------------------------------------------------------------------ actions
CurrencySet(c) == c # NoCurrency /\ c # ""

\* grand_currency or currency
OrCurrency(a, b) == IF CurrencySet(a) THEN a ELSE b

TotalCount(c) ==
  c.immediate_disks + c.immediate_pips + c.immediate_vms + c.aks_review_disks
  + c.aks_review_nics + c.immediate_nics + c.snapshots_old

\* a cost block whose except branch leaves the previous subscription's map and
\* currency in place
CostPhaseMutStale(no_cost, structured, sub_id, gc, resp) ==
  IF no_cost
  THEN [cost_map |-> EmptyCostMap, currency |-> NoCurrency,
        grand_currency |-> gc, printed |-> <<>>]
  ELSE IF resp.ok
  THEN [cost_map |-> CostMapOfRows(RowsOf(resp)),
        currency |-> CurrencyOfRows(RowsOf(resp)),
        grand_currency |-> OrCurrency(gc, CurrencyOfRows(RowsOf(resp))),
        printed |-> <<>>]
  ELSE [cost_map |-> cost_map, currency |-> currency, grand_currency |-> gc,
        printed |-> IF structured THEN <<>>
                    ELSE << [kind |-> "costUnavailable", sub |-> sub_id] >>]

\* the "pull cost map" block: the lookup's result, or the except branch
CostPhase(no_cost, structured, sub_id, gc, resp) ==
  IF no_cost
  THEN [cost_map |-> EmptyCostMap, currency |-> NoCurrency,
        grand_currency |-> gc, printed |-> <<>>]
  ELSE IF resp.ok
  THEN [cost_map |-> CostMapOfRows(RowsOf(resp)),
        currency |-> CurrencyOfRows(RowsOf(resp)),
        grand_currency |-> OrCurrency(gc, CurrencyOfRows(RowsOf(resp))),
        printed |-> <<>>]
  ELSE [cost_map |-> EmptyCostMap, currency |-> NoCurrency, grand_currency |-> gc,
        printed |-> IF structured THEN <<>>
                    ELSE << [kind |-> "costUnavailable", sub |-> sub_id] >>]

\* a heading printed without looking at the output format
SubHeaderMutAlways(structured, sub) ==
  << [kind |-> "subscription", sub |-> sub.id, name |-> SubName(sub)] >>

\* the "=== name (id) ===" line of text mode
SubHeader(structured, sub) ==
  IF structured THEN <<>>
  ELSE << [kind |-> "subscription", sub |-> sub.id, name |-> SubName(sub)] >>

\* the per-subscription text block: the lines of each bucket and the savings
Section(a, sub, st, cur, snaps) ==
  [kind      |-> "section",
   sub       |-> sub.id,
   immediate |-> Len(st.immediate_items),
   review    |-> Len(st.review_items),
   snapshots |-> IF a.include_snapshots
                 THEN (IF Len(snaps) > 20 THEN 20 ELSE Len(snaps)) ELSE 0,
   savings   |-> IF ~a.no_cost /\ CurrencySet(cur)
                 THEN << [currency |-> cur, immediate |-> st.cost_immediate,
                          review |-> st.cost_review,
                          total |-> st.cost_immediate + st.cost_review] >>
                 ELSE <<>>]

CanIterate == pc = "loop" /\ i <= Len(subs)

\* the loop body ends at one of the two "continue" statements
SkipSubscription ==
  /\ CanIterate
  /\ Skipped(subs[i], args.only, args.skip)
  /\ i' = i + 1
  /\ UNCHANGED << args, subs, pc, grand_counts, grand_cost_immediate,
                  grand_cost_review, grand_currency, all_findings, cost_map,
                  currency, immediate_items, review_items, snapshot_items,
                  cost_immediate, cost_review, stdout, stderr, responses,
                  classified, callVars >>

\* one whole iteration of the loop body for a scanned subscription: the cost
\* query (or its failure), the inventory queries, the five per-kind loops, the
\* collection or printing of the findings and the grand cost totals
ProcessSubscription ==
  /\ CanIterate
  /\ ~Skipped(subs[i], args.only, args.skip)
  /\ LET rem == MaxRecs - TotalCount(grand_counts) IN
     \E resp \in (IF args.no_cost THEN {NotQueried} ELSE CostResponses(subs[i])) :
     \E sub \in {subs[i]} :
     \E cp \in {CostPhase(args.no_cost, is_structured, sub.id, grand_currency, resp)} :
     \E by_managed \in SeqsUpTo(ByManagedCatalog, rem) :
     \E by_state \in SeqsUpTo(ByStateCatalog, rem - Len(by_managed)) :
     \E public_ips \in SeqsUpTo(PipCatalog, rem - Len(by_managed) - Len(by_state)) :
     \E nics \in SeqsUpTo(NicCatalog,
                  rem - Len(by_managed) - Len(by_state) - Len(public_ips)) :
     \E vms_waste \in SeqsUpTo(VmCatalog,
                  rem - Len(by_managed) - Len(by_state) - Len(public_ips) - Len(nics)) :
     \E snapshots_old \in
          (IF args.include_snapshots
           THEN SeqsUpTo(SnapCatalog, rem - Len(by_managed) - Len(by_state)
                                      - Len(public_ips) - Len(nics) - Len(vms_waste))
           ELSE {<<>>}) :
       \E inv \in {[orphan_disks  |-> get_orphaned_disks(by_managed, by_state),
                    public_ips    |-> public_ips,
                    nics          |-> nics,
                    vms_waste     |-> vms_waste,
                    snapshots_old |-> snapshots_old]} :
       \E st \in {RunLoops([no_cost |-> args.no_cost, cost_map |-> cp.cost_map,
                            currency |-> cp.currency,
                            include_snapshots |-> args.include_snapshots],
                           [immediate_items |-> <<>>, review_items |-> <<>>,
                            snapshot_items |-> <<>>, cost_immediate |-> 0,
                            cost_review |-> 0, grand_counts |-> grand_counts],
                           inv)} :
           /\ cost_map' = cp.cost_map
           /\ currency' = cp.currency
           /\ grand_currency' = cp.grand_currency
           /\ immediate_items' = st.immediate_items
           /\ review_items' = st.review_items
           /\ snapshot_items' = st.snapshot_items
           /\ cost_immediate' = st.cost_immediate
           /\ cost_review' = st.cost_review
           /\ grand_counts' = st.grand_counts
           /\ all_findings' =
                IF is_structured
                THEN all_findings \o
                     build_findings(SubName(sub), sub.id, st.immediate_items,
                                    st.review_items, st.snapshot_items)
                ELSE all_findings
           /\ stdout' =
                IF is_structured THEN stdout
                ELSE stdout \o SubHeader(is_structured, sub) \o cp.printed
                     \o << Section(args, sub, st, cp.currency, snapshots_old) >>
           /\ grand_cost_immediate' = grand_cost_immediate + st.cost_immediate
           /\ grand_cost_review' = grand_cost_review + st.cost_review
           /\ responses' = Append(responses,
                             [sub |-> sub.id, cost |-> resp, failed |-> FALSE,
                              inventory |-> inv])
  /\ i' = i + 1
  /\ UNCHANGED << args, subs, pc, stderr, classified, callVars >>

\* an inventory query raises RuntimeError: the exception leaves main() and the
\* handler under __main__ prints it to standard error
InventoryFailure ==
  /\ CanIterate
  /\ ~Skipped(subs[i], args.only, args.skip)
  /\ \E resp \in (IF args.no_cost THEN {NotQueried} ELSE CostResponses(subs[i])) :
       \E sub \in {subs[i]} :
       \E cp \in {CostPhase(args.no_cost, is_structured, sub.id, grand_currency, resp)} :
           /\ cost_map' = cp.cost_map
           /\ currency' = cp.currency
           /\ grand_currency' = cp.grand_currency
           /\ stdout' = stdout \o SubHeader(is_structured, sub) \o cp.printed
           /\ stderr' = Append(stderr, [kind |-> "diagnostic"])
           /\ responses' = Append(responses,
                             [sub |-> sub.id, cost |-> resp, failed |-> TRUE,
                              inventory |-> <<>>])
  /\ pc' = "aborted"
  /\ UNCHANGED << args, subs, i, grand_counts, grand_cost_immediate,
                  grand_cost_review, all_findings, immediate_items, review_items,
                  snapshot_items, cost_immediate, cost_review, classified, callVars >>

\* costSummary / TOTAL ESTIMATED SAVINGS: one currency, the two grand totals
CostSummary(no_cost, gcur, gimm, grev) ==
  IF ~no_cost /\ CurrencySet(gcur)
  THEN << [currency |-> gcur, immediateLast30d |-> gimm,
           aksReviewLast30d |-> grev, totalLast30d |-> gimm + grev] >>
  ELSE <<>>

\* the final output, after the loop
FinalOutput ==
  /\ pc = "loop"
  /\ i > Len(subs)
  /\ stdout' = Append(stdout,
       IF args.output_format = "json"
       THEN [kind |-> "json", summary |-> grand_counts, findings |-> all_findings,
             costSummary |-> CostSummary(args.no_cost, grand_currency,
                                         grand_cost_immediate, grand_cost_review)]
       ELSE IF args.output_format = "csv"
       THEN [kind |-> "csv", rows |-> all_findings]
       ELSE [kind |-> "totals", summary |-> grand_counts,
             costSummary |-> CostSummary(args.no_cost, grand_currency,
                                         grand_cost_immediate, grand_cost_review)])
  /\ pc' = "done"
  /\ UNCHANGED << args, subs, i, grand_counts, grand_cost_immediate,
                  grand_cost_review, grand_currency, all_findings, cost_map,
                  currency, immediate_items, review_items, snapshot_items,
                  cost_immediate, cost_review, stderr, responses, classified, callVars >>

Next ==
  \/ SkipSubscription
  \/ ProcessSubscription
  \/ InventoryFailure
  \/ FinalOutput

Spec == Init /\ [][Next]_vars

\* the runs with --output-format json or csv, the ones that keep all_findings
InitStructured == Init /\ is_structured

SpecStructured == InitStructured /\ [][Next]_vars

\* ------------------------------------------------- the classifier on its own
\* names and resource groups put together from three pieces each, so that
\* every rule of the classifier meets inputs that match it and inputs that
\* miss it by one character, by case or by position
S_mc    == <<"M","C","_">>
S_aks   == <<"a","k","s">>
S_pvc   == <<"p","v","c","-">>
S_kube  == <<"k","u","b","e">>
S_pe    == <<"-","p","e","-">>

RgFirst  == {<<>>, S_mc, <<"m","c","_">>, <<"x">>, S_aks, <<"-">>}
RgMiddle == {<<>>, S_aks, <<"A","k","S">>, S_mc, <<"f","l","a","s","k">>, <<"t","a","s","k">>}
RgLast   == {<<>>, <<"-">>, <<"_">>, <<"s">>, <<"-","x">>, <<"s","-","p","r","o","d">>}

NameFirst  == {<<>>, S_pvc, <<"P","V","C","-">>, <<"p","v","c">>, <<"x">>}
NameMiddle == {<<>>, S_kube, <<"K","u","B","e">>, S_pe, <<"p","e">>, S_pvc}
NameLast   == {<<>>, <<"x">>, <<"-">>, <<"-","P","E","-">>}

RgInputs ==
  {a \o b \o c : a \in RgFirst, b \in RgMiddle, c \in RgLast} \cup {NoneStr}

NameInputs ==
  {a \o b \o c : a \in NameFirst, b \in NameMiddle, c \in NameLast} \cup {NoneStr}

InitClassifier ==
  /\ Init
  /\ args = [output_format |-> "json", no_cost |-> FALSE, include_snapshots |-> FALSE,
             only |-> {}, skip |-> {}]

\* one call is_aks_related(name, resource_group)
Classify ==
  /\ ~classified.called
  /\ \E name \in NameInputs : \E resource_group \in RgInputs :
       classified' = [called |-> TRUE, name |-> name,
                      resource_group |-> resource_group,
                      result |-> is_aks_related(name, resource_group)]
  /\ UNCHANGED << args, subs, i, pc, grand_counts, grand_cost_immediate,
                  grand_cost_review, grand_currency, all_findings, cost_map,
                  currency, immediate_items, review_items, snapshot_items,
                  cost_immediate, cost_review, stdout, stderr, responses,
                  callVars >>

NextClassifier == Classify

SpecClassifier == InitClassifier /\ [][NextClassifier]_vars

\* ------------------------------------------------ the cost lookup on its own
MaxPages == 3     \* pages the Cost Management query may have

\* column names as the service spells them, and in another case
ColCost     == <<"P","r","e","T","a","x","C","o","s","t">>
ColRid      == <<"R","e","s","o","u","r","c","e","I","d">>
ColCurrency == <<"C","u","r","r","e","n","c","y">>

\* the column layouts of a response: the usual one, another order in lower
\* case, one without a currency column and one without a resource id column
Layouts ==
  { << ColCost, ColRid, ColCurrency >>,
    << lower(ColRid), lower(ColCurrency), lower(ColCost) >>,
    << ColCost, ColRid >>,
    << ColCost, ColCurrency >> }

\* a row of a response as the array the service sends under a layout
RowArray(layout, rec) ==
  [k \in 1..Len(layout) |->
     IF lower(layout[k]) = lower(ColCost) THEN rec.cost
     ELSE IF lower(layout[k]) = lower(ColRid) THEN rec.rid
     ELSE rec.currency]

\* the rows a page may hold: the same resource under two spellings of its id,
\* a row without resource id, a row without cost, a page without rows
PageRows ==
  { <<>>,
    << Row(<<"d","1">>, <<1>>, "GBP") >>,
    << Row(<<"D","1">>, <<10>>, "GBP"), Row(<<>>, <<7>>, "GBP") >>,
    << Row(<<"p","1">>, NoCost, "USD"), Row(NoneStr, <<3>>, "USD") >> }

\* a response of the service: properties.columns, properties.rows and
\* properties.nextLink
Page(layout, recs, link) ==
  [columns  |-> layout,
   rows     |-> [k \in 1..Len(recs) |-> RowArray(layout, recs[k])],
   nextLink |-> link]

\* an extract_from_response that keeps the rows of the latest page only
extract_from_responseMutReplace(lk, r) ==
  [lk EXCEPT !.cols = IF @ = <<>> THEN r.columns ELSE @,
             !.all_rows = r.rows,
             !.next_link = r.nextLink]

\* extract_from_response: the columns of the first page that has some, the
\* rows appended to all_rows, the continuation link returned
extract_from_response(lk, r) ==
  [lk EXCEPT !.cols = IF @ = <<>> THEN r.columns ELSE @,
             !.all_rows = @ \o r.rows,
             !.next_link = r.nextLink]

\* "find column indices": the last column of that name, 0 standing for None
ColumnIndex(cols, name) ==
  LET hits == {k \in 1..Len(cols) : lower(cols[k]) = name}
  IN  IF hits = {} THEN 0 ELSE CHOOSE k \in hits : \A j \in hits : j <= k

\* the end of the lookup: the column indices and the row loop
BuildCostMap(cols, all_rows) ==
  LET idx_cost     == ColumnIndex(cols, lower(ColCost))
      idx_rid      == ColumnIndex(cols, lower(ColRid))
      idx_currency == ColumnIndex(cols, lower(ColCurrency))
      rows == [k \in 1..Len(all_rows) |->
                 Row(all_rows[k][idx_rid], all_rows[k][idx_cost],
                     IF idx_currency = 0 THEN NoCurrency
                     ELSE all_rows[k][idx_currency])]
  IN  IF idx_cost = 0 \/ idx_rid = 0
      THEN [cost_map |-> EmptyCostMap, currency |-> NoCurrency]
      ELSE [cost_map |-> CostMapOfRows(rows), currency |-> CurrencyOfRows(rows)]

\* what the service may answer to a request for page k: some rows under the
\* layout of the query and, before the last page, the link to page k + 1
Answers(layout, k) ==
  { [recs |-> recs, link |-> link] :
      recs \in PageRows,
      link \in (IF k < MaxPages THEN {NoLink, <<k + 1>>} ELSE {NoLink}) }

Request(link, ok, recs, nextLink) ==
  [link |-> link, ok |-> ok, recs |-> recs, nextLink |-> nextLink]

OtherThanLookup ==
  << args, subs, i, pc, grand_counts, grand_cost_immediate, grand_cost_review,
     grand_currency, all_findings, cost_map, currency, immediate_items,
     review_items, snapshot_items, cost_immediate, cost_review, stdout, stderr,
     responses, classified, merged, aged >>

\* the first request is answered
FirstRequest ==
  /\ lookup.pc = "idle"
  /\ \E layout \in Layouts : \E a \in Answers(layout, 1) :
       lookup' = [extract_from_response(lookup, Page(layout, a.recs, a.link))
                    EXCEPT !.pc = "while",
                           !.requests = << Request(<<1>>, TRUE, a.recs, a.link) >>]
  /\ UNCHANGED OtherThanLookup

\* the first request fails: the exception leaves the lookup
FirstRequestFails ==
  /\ lookup.pc = "idle"
  /\ lookup' = [lookup EXCEPT !.pc = "raised",
                              !.requests = << Request(<<1>>, FALSE, <<>>, NoLink) >>]
  /\ UNCHANGED OtherThanLookup

\* "while next_link": the continuation request is answered
ContinuationPage ==
  /\ lookup.pc = "while"
  /\ lookup.next_link # NoLink
  /\ \E a \in Answers(lookup.cols, lookup.next_link[1]) :
       lookup' = [extract_from_response(lookup, Page(lookup.cols, a.recs, a.link))
                    EXCEPT !.requests =
                      Append(@, Request(lookup.next_link, TRUE, a.recs, a.link))]
  /\ UNCHANGED OtherThanLookup

\* "except Exception: break": the continuation request fails
ContinuationFails ==
  /\ lookup.pc = "while"
  /\ lookup.next_link # NoLink
  /\ lookup' = [lookup EXCEPT !.pc = "resolve",
                              !.requests =
                                Append(@, Request(lookup.next_link, FALSE, <<>>, NoLink))]
  /\ UNCHANGED OtherThanLookup

\* the loop is left (no continuation, or the break): the columns are
\* resolved, the row loop runs and the lookup returns
ReturnCostMap ==
  /\ \/ lookup.pc = "while" /\ lookup.next_link = NoLink
     \/ lookup.pc = "resolve"
  /\ \E res \in {BuildCostMap(lookup.cols, lookup.all_rows)} :
       lookup' = [lookup EXCEPT !.pc = "returned",
                                !.cost_map = res.cost_map,
                                !.currency = res.currency]
  /\ UNCHANGED OtherThanLookup

NextLookup ==
  \/ FirstRequest
  \/ FirstRequestFails
  \/ ContinuationPage
  \/ ContinuationFails
  \/ ReturnCostMap

SpecLookup == InitClassifier /\ [][NextLookup]_vars

\* ------------------------------------------------ the disk merge on its own
MaxDisks == 2     \* disks one of the two listings may return

\* disks without an id, as None and as the empty string
DiskNoId    == Rec(NoneStr, <<"d">>, <<"r","g">>)
DiskEmptyId == Rec(<<>>, <<"d">>, <<"r","g">>)

\* what either listing may return
DiskListings ==
  SeqsUpTo({DiskA, DiskAlow, DiskB, DiskNoId, DiskEmptyId}, MaxDisks)

\* one call of get_orphaned_disks: the two listings and the merge
MergeDisks ==
  /\ ~merged.called
  /\ \E by_managed \in DiskListings : \E by_state \in DiskListings :
       merged' = [called |-> TRUE, by_managed |-> by_managed, by_state |-> by_state,
                  result |-> get_orphaned_disks(by_managed, by_state)]
  /\ UNCHANGED << args, subs, i, pc, grand_counts, grand_cost_immediate,
                  grand_cost_review, grand_currency, all_findings, cost_map,
                  currency, immediate_items, review_items, snapshot_items,
                  cost_immediate, cost_review, stdout, stderr, responses,
                  classified, lookup, aged >>

NextDisks == MergeDisks

SpecDisks == InitClassifier /\ [][NextDisks]_vars

\* -------------------------------------------- the snapshot filter on its own
MaxSnaps == 2     \* snapshots the listing may return

\* seconds in a day; times are counted in seconds since the epoch
Day == 86400

\* timeCreated: None, the empty string, a text that is no ISO timestamp, or an
\* ISO timestamp: a wall-clock reading and its zone suffix ("Z", "+01:00", or
\* none at all)
TimeNone      == [kind |-> "none", wall |-> 0, zone |-> "naive"]
TimeEmpty     == [kind |-> "empty", wall |-> 0, zone |-> "naive"]
TimeGarbage   == [kind |-> "garbage", wall |-> 0, zone |-> "naive"]
Iso(wall, zone) == [kind |-> "iso", wall |-> wall, zone |-> zone]

\* datetime.fromisoformat(tc.replace("Z", "+00:00")) followed by timestamp():
\* the reading less the offset of its zone, a reading without zone being
\* taken as UTC
Timestamp(tc) ==
  IF tc.zone = "+01:00" THEN tc.wall - 3600 ELSE tc.wall

Snap(id, tc) == [id |-> id, timeCreated |-> tc]

\* a filter that keeps the snapshots strictly older than the cutoff
get_snapshots_older_than_daysMutStrict(days, now, later, snaps) ==
  LET cutoff == now - (days * Day)
      keep(s) == /\ s.timeCreated.kind = "iso"
                 /\ Timestamp(s.timeCreated) < cutoff
      f[k \in 0..Len(snaps)] ==
        IF k = 0 THEN <<>>
        ELSE IF keep(snaps[k])
             THEN Append(f[k - 1],
                         [id |-> snaps[k].id, timeCreated |-> snaps[k].timeCreated,
                          ageDays |-> (later - Timestamp(snaps[k].timeCreated)) \div Day])
             ELSE f[k - 1]
  IN  f[Len(snaps)]

\* get_snapshots_older_than_days: now is the clock when the cutoff is taken,
\* later the clock when ageDays is computed; a snapshot without timeCreated
\* or with one that does not parse is passed over
get_snapshots_older_than_days(days, now, later, snaps) ==
  LET cutoff == now - (days * Day)
      keep(s) == /\ s.timeCreated.kind = "iso"
                 /\ Timestamp(s.timeCreated) <= cutoff
      f[k \in 0..Len(snaps)] ==
        IF k = 0 THEN <<>>
        ELSE IF keep(snaps[k])
             THEN Append(f[k - 1],
                         [id |-> snaps[k].id, timeCreated |-> snaps[k].timeCreated,
                          ageDays |-> (later - Timestamp(snaps[k].timeCreated)) \div Day])
             ELSE f[k - 1]
  IN  f[Len(snaps)]

\* --snapshot-days: the default and two small thresholds
Thresholds == {0, 1, 180}

\* the clock at the cutoff, and how much later ageDays may be computed
Clocks == {400 * Day + 5}
Delays == {0, 2}

\* the timeCreated values a listing may hold around a cutoff: a day older, a
\* second older, at the cutoff, a second and half an hour younger, each in
\* the three zone spellings, next to the values that do not parse
TimesAround(cutoff) ==
  { Iso(cutoff + d, z) : d \in {0 - Day, 0 - 1, 0, 1, 1800},
                         z \in {"Z", "naive", "+01:00"} }
  \cup {TimeNone, TimeEmpty, TimeGarbage}

\* one call of get_snapshots_older_than_days
AgeSnapshots ==
  /\ ~aged.called
  /\ \E days \in Thresholds : \E now \in Clocks : \E delay \in Delays :
     \E tcs \in SeqsUpTo(TimesAround(now - (days * Day)), MaxSnaps) :
     \E snaps \in {[k \in 1..Len(tcs) |-> Snap(<<"S", "1">>, tcs[k])]} :
       aged' = [called |-> TRUE, days |-> days, now |-> now, later |-> now + delay,
                snaps |-> snaps,
                out |-> get_snapshots_older_than_days(days, now, now + delay, snaps)]
  /\ UNCHANGED << args, subs, i, pc, grand_counts, grand_cost_immediate,
                  grand_cost_review, grand_currency, all_findings, cost_map,
                  currency, immediate_items, review_items, snapshot_items,
                  cost_immediate, cost_review, stdout, stderr, responses,
                  classified, lookup, merged >>

NextSnapshots == AgeSnapshots

SpecSnapshots == InitClassifier /\ [][NextSnapshots]_vars

\* ------------------------------------------------------- reading the state
Range(seq) == {seq[k] : k \in 1..Len(seq)}

\* the records of one scanned subscription in discovery order, tagged with
\* the subscription and the resource type
Tagged(sub, resourceType, list) ==
  [k \in 1..Len(list) |-> [sub |-> sub, resourceType |-> resourceType, rec |-> list[k]]]

CollectedOf(r) ==
  IF r.failed THEN <<>>
  ELSE Tagged(r.sub, "disk", r.inventory.orphan_disks)
       \o Tagged(r.sub, "publicIp", r.inventory.public_ips)
       \o Tagged(r.sub, "nic", r.inventory.nics)
       \o Tagged(r.sub, "vm", r.inventory.vms_waste)
       \o Tagged(r.sub, "snapshot", r.inventory.snapshots_old)

\* every record the collectors returned during the run, in discovery order
Collected ==
  LET f[k \in 0..Len(responses)] ==
        IF k = 0 THEN <<>> ELSE f[k - 1] \o CollectedOf(responses[k])
  IN  f[Len(responses)]

\* a finding is the finding of a collected record
FindingOf(f, c) ==
  /\ f.subscriptionId = c.sub
  /\ f.resourceType = c.resourceType
  /\ f.resourceId = c.rec.id
  /\ f.name = c.rec.name
  /\ f.resourceGroup = c.rec.resourceGroup

\* the text blocks printed so far, one per scanned subscription
Sections == SelectSeq(stdout, LAMBDA o : o.kind = "section")

Scanned == SelectSeq(responses, LAMBDA r : ~r.failed)

\* ------------------------------------------------------------------- claims
\* C1: every record the collectors return for a scanned subscription yields
\* exactly one finding.  In json and csv mode the run's finding sequence holds,
\* for every collected record, as many findings of it as the record was
\* collected, and nothing else; in text mode, where no sequence is kept, the
\* items built for the latest subscription are one per collected record and
\* the block printed for a subscription has one line per disk, public IP, NIC
\* and VM.
C1_FindingsComplete ==
  \A col \in {Collected} : \A scanned \in {Scanned} :
  /\ is_structured =>
       /\ Len(all_findings) = Len(col)
       /\ \A c \in Range(col) :
            Cardinality({k \in 1..Len(all_findings) : FindingOf(all_findings[k], c)})
            = Cardinality({k \in 1..Len(col) : col[k] = c})
  /\ (~is_structured /\ Len(scanned) > 0) =>
       \A last \in {CollectedOf(scanned[Len(scanned)])} :
       \A items \in {immediate_items \o review_items \o snapshot_items} :
         /\ Len(items) = Len(last)
         /\ \A c \in Range(last) :
              Cardinality({k \in 1..Len(items) :
                             /\ items[k].resourceType = c.resourceType
                             /\ items[k].resourceId = c.rec.id
                             /\ items[k].name = c.rec.name})
              = Cardinality({k \in 1..Len(last) : last[k] = c})
  /\ ~is_structured =>
       \A sections \in {Sections} :
         /\ Len(sections) = Len(scanned)
         /\ \A k \in 1..Len(sections) :
              /\ sections[k].sub = scanned[k].sub
              /\ sections[k].immediate + sections[k].review
                 = Len(CollectedOf(scanned[k])) - Len(scanned[k].inventory.snapshots_old)

\* C1 witness: a finished json or csv run that collected a snapshot and a
\* second record, both in the finding sequence
C1_Witness ==
  /\ pc = "done"
  /\ is_structured
  /\ Len(all_findings) = 2
  /\ \E k \in 1..2 : all_findings[k].resourceType = "snapshot"
  /\ \E k \in 1..2 : all_findings[k].resourceType = "nic"

\* the sum of the costs present in a sequence of items or findings
SumCosts(seq) ==
  LET f[k \in 0..Len(seq)] ==
        IF k = 0 THEN 0
        ELSE f[k - 1] + (IF seq[k].costLast30d = NoCost THEN 0 ELSE seq[k].costLast30d[1])
  IN  f[Len(seq)]

\* the latest scanned subscription went through its five loops
LatestScanned == Len(responses) > 0 /\ ~responses[Len(responses)].failed

\* C2: after a subscription is processed its immediate total is the sum of the
\* costs of all its immediate-bucket findings (disk, publicIp, nic, vm) and its
\* review total the sum of the costs of all its review-bucket findings.
C2_CostByBucket ==
  LatestScanned =>
    /\ cost_immediate = SumCosts(immediate_items)
    /\ cost_review = SumCosts(review_items \o snapshot_items)

\* C3: for a finding of any resource type, costLast30d is None exactly when the
\* cost lookup is disabled, the identifier is empty, or the subscription's
\* CostIndex has no entry for the identifier compared without case; otherwise
\* it is the entry under the lower-cased identifier.
C3_CostAttribution ==
  LatestScanned =>
    \A item \in Range(immediate_items \o review_items \o snapshot_items) :
      LET rid == OrEmpty(item.resourceId)
          entries == {k \in DOMAIN cost_map : lower(k) = lower(rid)}
      IN  IF args.no_cost \/ rid = <<>> \/ entries = {}
          THEN item.costLast30d = NoCost
          ELSE item.costLast30d = <<cost_map[lower(rid)]>>

C4_WitnessStructured ==
  /\ pc = "aborted"
  /\ is_structured
  /\ Len(all_findings) > 0

\* the response logged for a subscription id (ids are unique in a listing)
ResponseOf(sub_id) ==
  responses[CHOOSE k \in 1..Len(responses) : responses[k].sub = sub_id]

\* C5: a failed cost query does not end the run, and it stays with its
\* subscription: every finding of a subscription whose cost query failed has no
\* cost, such a subscription adds nothing to the totals, every cost a finding
\* carries is the amount of a row of its own subscription's cost response, and
\* the run aborts only on an inventory failure.
C5_CostFailureIsolated ==
  /\ \A f \in Range(all_findings) :
       LET r == ResponseOf(f.subscriptionId) IN
       /\ ~r.cost.ok => f.costLast30d = NoCost
       /\ f.costLast30d # NoCost =>
            \E row \in Range(RowsOf(r.cost)) :
              /\ lower(row.rid) = lower(f.resourceId)
              /\ row.cost = f.costLast30d
  /\ (LatestScanned /\ ~responses[Len(responses)].cost.ok) =>
       /\ cost_immediate = 0 /\ cost_review = 0
       /\ cost_map = EmptyCostMap /\ currency = NoCurrency
       /\ \A item \in Range(immediate_items \o review_items \o snapshot_items) :
            item.costLast30d = NoCost
  /\ (\A k \in 1..Len(responses) : ~responses[k].cost.ok) =>
       grand_cost_immediate = 0 /\ grand_cost_review = 0 /\ grand_currency = NoCurrency
  /\ pc = "aborted" => responses[Len(responses)].failed
  /\ (pc = "loop" /\ Len(responses) > 0 /\ ~responses[Len(responses)].cost.ok) =>
       ENABLED Next

\* C5 witness: the cost query of the first subscription failed, its finding has
\* no cost, and a finding of the second subscription carries a cost
C5_Witness ==
  /\ pc = "done"
  /\ Len(all_findings) = 2
  /\ Len(responses) = 2
  /\ responses[1].cost.queried /\ ~responses[1].cost.ok
  /\ all_findings[1].subscriptionId = responses[1].sub
  /\ all_findings[1].costLast30d = NoCost
  /\ all_findings[2].subscriptionId = responses[2].sub
  /\ all_findings[2].costLast30d # NoCost

\* C6 as claimed: the finding sequence follows subscription order and, within
\* a subscription, discovery order.
C6_DiscoveryOrder ==
  is_structured =>
    /\ Len(all_findings) = Len(Collected)
    /\ \A k \in 1..Len(all_findings) : FindingOf(all_findings[k], Collected[k])

BucketRank(b) ==
  IF b = "immediate" THEN 1 ELSE IF b = "aks_review" THEN 2 ELSE 3

SubIndex(sub_id) == CHOOSE k \in 1..Len(subs) : subs[k].id = sub_id

Buckets == {"immediate", "aks_review", "snapshot_review"}

\* C6 as amended: the finding sequence follows subscription order; within a
\* subscription the immediate findings come first, then the AKS-review
\* findings, then the snapshot findings; within one bucket of one subscription
\* the findings are in discovery order.
C6_BucketThenDiscoveryOrder ==
  is_structured =>
    /\ \A a, b \in 1..Len(all_findings) :
         a < b =>
           /\ SubIndex(all_findings[a].subscriptionId)
              <= SubIndex(all_findings[b].subscriptionId)
           /\ all_findings[a].subscriptionId = all_findings[b].subscriptionId =>
                BucketRank(all_findings[a].bucket) <= BucketRank(all_findings[b].bucket)
    /\ \A col \in {Collected} :
       \A s \in {all_findings[k].subscriptionId : k \in 1..Len(all_findings)}
              \cup {col[k].sub : k \in 1..Len(col)} :
       \A bk \in Buckets :
         \A fs \in {SelectSeq(all_findings,
                              LAMBDA f : f.subscriptionId = s /\ f.bucket = bk)} :
         \A cs \in {SelectSeq(col,
                              LAMBDA c : c.sub = s /\ \E f \in Range(fs) : FindingOf(f, c))} :
           /\ Len(fs) = Len(cs)
           /\ \A k \in 1..Len(fs) : FindingOf(fs[k], cs[k])
           /\ Len(all_findings) = Len(col)

\* C6 witness: a public IP found after an AKS disk of the same subscription
\* stands before it in the finding sequence
C6_Witness ==
  /\ is_structured
  /\ Len(all_findings) = 2
  /\ all_findings[1].resourceType = "publicIp"
  /\ all_findings[2].resourceType = "disk"
  /\ all_findings[2].bucket = "aks_review"
  /\ all_findings[1].subscriptionId = all_findings[2].subscriptionId

\* the number of findings of a resource type in a bucket
CountOf(resourceType, bucket) ==
  Cardinality({k \in 1..Len(all_findings) :
                 /\ all_findings[k].resourceType = resourceType
                 /\ all_findings[k].bucket = bucket})

SumField(seq, Field(_)) ==
  LET f[k \in 0..Len(seq)] == IF k = 0 THEN 0 ELSE f[k - 1] + Field(seq[k])
  IN  f[Len(seq)]

\* C7: each count of the run totals is the number of findings built with that
\* resource type and bucket.  In json and csv mode the findings are the finding
\* sequence; in text mode they are the lines of the printed blocks; in every
\* mode the counts add up to the number of records collected.
C7_CountsFromFindings ==
  /\ is_structured =>
       /\ grand_counts.immediate_disks = CountOf("disk", "immediate")
       /\ grand_counts.immediate_pips = CountOf("publicIp", "immediate")
       /\ grand_counts.immediate_vms = CountOf("vm", "immediate")
       /\ grand_counts.immediate_nics = CountOf("nic", "immediate")
       /\ grand_counts.aks_review_disks = CountOf("disk", "aks_review")
       /\ grand_counts.aks_review_nics = CountOf("nic", "aks_review")
       /\ grand_counts.snapshots_old = CountOf("snapshot", "snapshot_review")
       /\ TotalCount(grand_counts) = Len(all_findings)
  /\ ~is_structured =>
       /\ grand_counts.immediate_disks + grand_counts.immediate_pips
          + grand_counts.immediate_vms + grand_counts.immediate_nics
          = SumField(Sections, LAMBDA o : o.immediate)
       /\ grand_counts.aks_review_disks + grand_counts.aks_review_nics
          = SumField(Sections, LAMBDA o : o.review)
  /\ TotalCount(grand_counts) = Len(Collected)
  /\ \A o \in Range(stdout) :
       o.kind \in {"json", "totals"} => o.summary = grand_counts

\* C7 witness: a finished run that counted an AKS-review disk and an immediate NIC
C7_Witness ==
  /\ pc = "done"
  /\ is_structured
  /\ grand_counts.aks_review_disks = 1
  /\ grand_counts.immediate_nics = 1

\* the findings of the run in the buckets of a total, in one currency
InCurrency(buckets, cur) ==
  SelectSeq(all_findings, LAMBDA f : f.bucket \in buckets /\ f.currency = cur)

\* C8: a total reported under a currency holds the costs of findings of that
\* currency only: the immediate and review amounts of the JSON cost summary do
\* not exceed the costs of the findings of their bucket in the summary's currency.
C8_TotalsPerCurrency ==
  \A o \in Range(stdout) :
    (o.kind = "json" /\ o.costSummary # <<>>) =>
      LET cs == o.costSummary[1] IN
      /\ cs.immediateLast30d <= SumCosts(InCurrency({"immediate"}, cs.currency))
      /\ cs.aksReviewLast30d
         <= SumCosts(InCurrency({"aks_review", "snapshot_review"}, cs.currency))

\* C9: a finding is in the AKS-review bucket exactly when it is a disk or a NIC
\* that the classifier reports as AKS-related; a snapshot is in the snapshot
\* bucket; a public IP or a VM is immediate whatever its name or resource
\* group; a disk or NIC that is not AKS-related is immediate.
BucketRule(resourceType, name, resourceGroup, bucket) ==
  \A aks \in {is_aks_related(name, resourceGroup)} :
    /\ bucket \in Buckets
    /\ bucket = "aks_review" <=> (resourceType \in {"disk", "nic"} /\ aks)
    /\ resourceType = "snapshot" => bucket = "snapshot_review"
    /\ resourceType \in {"publicIp", "vm"} => bucket = "immediate"
    /\ (resourceType \in {"disk", "nic"} /\ ~aks) => bucket = "immediate"

C9_BucketByKind ==
  /\ \A f \in Range(all_findings) :
       BucketRule(f.resourceType, f.name, f.resourceGroup, f.bucket)
  /\ ~is_structured =>
       /\ \A x \in Range(immediate_items) :
            BucketRule(x.resourceType, x.name, x.resourceGroup, "immediate")
       /\ \A x \in Range(review_items) :
            BucketRule(x.resourceType, x.name, x.resourceGroup, "aks_review")
       /\ \A x \in Range(snapshot_items) :
            BucketRule(x.resourceType, x.name, x.resourceGroup, "snapshot_review")

\* C9 witness: a public IP named kube in an MC_ resource group is immediate,
\* next to a disk in the AKS-review bucket
C9_Witness ==
  /\ Len(all_findings) = 2
  /\ \E k \in 1..2 :
       /\ all_findings[k].resourceType = "publicIp"
       /\ is_aks_related(all_findings[k].name, all_findings[k].resourceGroup)
       /\ all_findings[k].bucket = "immediate"
  /\ \E k \in 1..2 :
       /\ all_findings[k].resourceType = "disk"
       /\ all_findings[k].bucket = "aks_review"

\* s.endswith(p)
endswith(s, p) ==
  Len(p) <= Len(s) /\ SubSeq(s, Len(s) - Len(p) + 1, Len(s)) = p

\* the rules of the classifier, read on the lower-cased arguments
RuleManagedGroup(rg) == startswith(rg, <<"m","c","_">>)

RuleAksToken(rg) ==
  \/ \E t \in { <<"-","a","k","s","-">>, <<"-","a","k","s","_">>,
                <<"_","a","k","s","-">>, <<"_","a","k","s","_">> } : contains(rg, t)
  \/ startswith(rg, <<"a","k","s","-">>) \/ startswith(rg, <<"a","k","s","_">>)
  \/ endswith(rg, <<"-","a","k","s">>) \/ endswith(rg, <<"_","a","k","s">>)

RulePvc(n) == startswith(n, <<"p","v","c","-">>)

RuleKubeOrPe(n) == contains(n, <<"k","u","b","e">>) \/ contains(n, <<"-","p","e","-">>)

\* C10: is_aks_related(name, resourceGroup) is true exactly when a rule
\* matches: the group starts with MC_, or holds aks as a token delimited by -
\* or _ (or at the start before one, or at the end after one), in any case;
\* or the lower-cased name starts with pvc-, or contains kube or -pe-.  The
\* groups flasks and tasks-prod with a name matching no name rule give false,
\* and None counts as the empty string.
C10_ClassifierRules ==
  classified.called =>
    LET n  == lower(IF classified.name = NoneStr THEN <<>> ELSE classified.name)
        rg == lower(IF classified.resource_group = NoneStr
                    THEN <<>> ELSE classified.resource_group)
    IN  /\ classified.result
           <=> (RuleManagedGroup(rg) \/ RuleAksToken(rg) \/ RulePvc(n) \/ RuleKubeOrPe(n))
        /\ ( /\ rg \in { <<"f","l","a","s","k","s">>,
                         <<"t","a","s","k","s","-","p","r","o","d">> }
             /\ ~RulePvc(n) /\ ~RuleKubeOrPe(n) ) => ~classified.result
        /\ (classified.name = NoneStr /\ classified.resource_group = NoneStr)
             => ~classified.result

\* C10 witness: the call with resource group tasks-prod and no name gave false
C10_Witness ==
  /\ classified.called
  /\ classified.resource_group = <<"t","a","s","k","s","-","p","r","o","d">>
  /\ classified.name = NoneStr
  /\ ~classified.result

\* a call that a resource-group rule alone decides, with aks inside the group
C10_WitnessToken ==
  /\ classified.called
  /\ classified.resource_group = <<"x","A","k","S","-","x">>
  /\ classified.name = <<"x">>
  /\ ~classified.result

\* ---------------------------------------------------------------- C11
EnabledState == <<"e","n","a","b","l","e","d">>

\* the selection rule: enabled in any case, on the include list (or the list
\* is empty) by name or id, on the exclude list by neither; names and ids are
\* read without surrounding blanks, as the entries of the two lists are
Selected(s) ==
  /\ lower(OrEmpty(s.state)) = EnabledState
  /\ \/ args.only = {}
     \/ strip(OrEmpty(s.name)) \in args.only
     \/ strip(OrEmpty(s.id)) \in args.only
  /\ strip(OrEmpty(s.name)) \notin args.skip
  /\ strip(OrEmpty(s.id)) \notin args.skip

\* the ids of the subscriptions queried so far, in the order of the queries
QueriedIds == [k \in 1..Len(responses) |-> responses[k].sub]

\* at every moment the subscriptions queried are selected ones, in listing
\* order and without repetition; all selected subscriptions the loop has
\* passed were queried; a finished run queried every selected subscription
\* of the listing; findings and printed blocks belong to queried subscriptions
C11_SelectedOnly ==
  \A want \in {SelectSeq(AccountList, Selected)} : \A ids \in {QueriedIds} :
  \A idset \in {Range(ids)} :
    /\ Len(ids) <= Len(want)
    /\ \A k \in 1..Len(ids) : ids[k] = want[k].id
    /\ pc = "done" => Len(ids) = Len(want)
    /\ pc = "loop" => Len(ids) = Len(SelectSeq(SubSeq(subs, 1, i - 1), Selected))
    /\ \A f \in Range(all_findings) : f.subscriptionId \in idset
    /\ \A o \in Range(stdout) :
         o.kind \in {"subscription", "section", "costUnavailable"} => o.sub \in idset
    /\ (Len(ids) = 0) =>
         /\ grand_counts = ZeroCounts
         /\ grand_cost_immediate = 0 /\ grand_cost_review = 0

\* a step of the loop at a subscription that is not selected issues no query
\* and leaves findings, counts, totals and output as they are; any step
\* queries at most one subscription, the one the loop stands at
C11_Frame ==
  /\ (pc = "loop" /\ i <= Len(subs) /\ ~Selected(subs[i])) =>
       UNCHANGED << responses, all_findings, grand_counts, grand_cost_immediate,
                    grand_cost_review, grand_currency, stdout, stderr >>
  /\ \/ UNCHANGED responses
     \/ /\ pc = "loop" /\ i <= Len(subs) /\ Selected(subs[i])
        /\ responses' = Append(responses, responses'[Len(responses')])
        /\ responses'[Len(responses')].sub = subs[i].id

FetchedRows(reqs) ==
  LET f[k \in 0..Len(reqs)] ==
        IF k = 0 THEN <<>>
        ELSE IF reqs[k].ok THEN f[k - 1] \o reqs[k].recs ELSE f[k - 1]
  IN  f[Len(reqs)]

\* the response names a cost column and a resource id column
Mappable(cols) ==
  /\ \E k \in 1..Len(cols) : lower(cols[k]) = lower(ColCost)
  /\ \E k \in 1..Len(cols) : lower(cols[k]) = lower(ColRid)

\* C12: the lookup requests the first page and then each continuation link
\* returned, in order, until a page returns none; a failing continuation
\* request ends the pagination without raising and no later page is requested;
\* the cost index returned (the response naming its cost and resource id
\* columns) is built from exactly the rows of the pages fetched: its keys are
\* the lower-cased ids of their rows that have an id, each with the cost of
\* the last such row.
C12_Pagination ==
  \A reqs \in {lookup.requests} :
    /\ Len(reqs) > 0 => reqs[1].link = <<1>>
    /\ \A k \in 2..Len(reqs) :
         /\ reqs[k - 1].ok
         /\ reqs[k - 1].nextLink # NoLink
         /\ reqs[k].link = reqs[k - 1].nextLink
    /\ lookup.pc = "raised" <=> (Len(reqs) = 1 /\ ~reqs[1].ok)
    /\ (Len(reqs) > 1 /\ ~reqs[Len(reqs)].ok) => lookup.pc \in {"resolve", "returned"}
    /\ lookup.pc = "while" => reqs[Len(reqs)].ok
    /\ lookup.pc = "returned" =>
         /\ ~reqs[Len(reqs)].ok \/ reqs[Len(reqs)].nextLink = NoLink
         /\ Mappable(lookup.cols) =>
              \A rows \in {FetchedRows(reqs)} :
              \A kept \in {{k \in 1..Len(rows) : Truthy(rows[k].rid)}} :
                /\ DOMAIN lookup.cost_map = {lower(rows[k].rid) : k \in kept}
                /\ \A k \in kept :
                     (\A j \in kept : lower(rows[j].rid) = lower(rows[k].rid) => j <= k)
                       => lookup.cost_map[lower(rows[k].rid)]
                          = (IF rows[k].cost = NoCost THEN 0 ELSE rows[k].cost[1])

\* C12 witness: two pages fetched, the request for the third failed, and the
\* index returned holds the cost of the second page's row for an id that the
\* first page spelled in another case
C12_Witness ==
  /\ lookup.pc = "returned"
  /\ Len(lookup.requests) = 3
  /\ ~lookup.requests[3].ok
  /\ lookup.requests[1].recs # <<>>
  /\ <<"d","1">> \in DOMAIN lookup.cost_map
  /\ lookup.cost_map[<<"d","1">>] = 10

\* ---------------------------------------------------------------- C13
\* C13: the merged inventory holds exactly one record per distinct lower-cased
\* id of the two listings, namely the first record with that id in the
\* managedBy listing followed by the diskState listing, in that order; every
\* record with a non-empty id of either listing is represented by the record
\* of its lower-cased id, and records without id are left out.
C13_DiskDedup ==
  merged.called =>
    \A all \in {merged.by_managed \o merged.by_state} : \A res \in {merged.result} :
      LET key(d) == lower(OrEmpty(d.id))
          first(r) == CHOOSE k \in 1..Len(all) :
                        /\ key(all[k]) = r
                        /\ \A j \in 1..Len(all) : key(all[j]) = r => k <= j
      IN  /\ \A a, b \in 1..Len(res) : a # b => key(res[a]) # key(res[b])
          /\ \A k \in 1..Len(res) : key(res[k]) # <<>>
          /\ {key(res[k]) : k \in 1..Len(res)}
               = {key(all[k]) : k \in 1..Len(all)} \ {<<>>}
          /\ \A k \in 1..Len(res) : res[k] = all[first(key(res[k]))]
          /\ \A a, b \in 1..Len(res) :
               a < b => first(key(res[a])) < first(key(res[b]))

\* C13 witness: each listing returned the same disk, its id spelled in two
\* cases, and the merge kept the record of the managedBy listing alone
C13_Witness ==
  /\ merged.called
  /\ Len(merged.by_managed) = 1 /\ Len(merged.by_state) = 1
  /\ merged.by_managed[1].id # merged.by_state[1].id
  /\ lower(merged.by_managed[1].id) = lower(merged.by_state[1].id)
  /\ merged.result = merged.by_managed

\* ---------------------------------------------------------------- C14
\* the instant a parseable timestamp denotes, in seconds since the epoch
InstantOf(tc) == tc.wall - (IF tc.zone = "+01:00" THEN 3600 ELSE 0)

\* a snapshot qualifies under threshold n at time t: its timestamp parses and
\* it was created n days before t or earlier
Qualifies(s, n, t) ==
  /\ s.timeCreated.kind = "iso"
  /\ t - InstantOf(s.timeCreated) >= n * Day

\* C14: with threshold N the snapshots returned are exactly those of the
\* listing whose timestamp parses and whose age is at least N days, in the
\* order of the listing: one created exactly N days ago is returned, one
\* created a second less than N days ago is not; every snapshot returned
\* carries an integer ageDays >= N; a snapshot whose timestamp is missing or
\* does not parse is left out and the call still returns.
C14_SnapshotAge ==
  aged.called =>
    \A want \in {SelectSeq(aged.snaps, LAMBDA s : Qualifies(s, aged.days, aged.now))} :
      /\ Len(aged.out) = Len(want)
      /\ \A k \in 1..Len(want) :
           /\ aged.out[k].id = want[k].id
           /\ aged.out[k].timeCreated = want[k].timeCreated
           /\ aged.out[k].ageDays \in Int
           /\ aged.out[k].ageDays >= aged.days
           /\ aged.out[k].ageDays * Day <= aged.later - InstantOf(want[k].timeCreated)
           /\ aged.later - InstantOf(want[k].timeCreated) < (aged.out[k].ageDays + 1) * Day
      /\ \A s \in Range(aged.snaps) :
           /\ (s.timeCreated.kind = "iso"
               /\ aged.now - InstantOf(s.timeCreated) = aged.days * Day)
               => \E o \in Range(aged.out) : o.timeCreated = s.timeCreated
           /\ (s.timeCreated.kind # "iso"
               \/ aged.now - InstantOf(s.timeCreated) < aged.days * Day)
               => \A o \in Range(aged.out) : o.timeCreated # s.timeCreated

\* C14 witness: under the threshold of 180 days a snapshot created exactly 180
\* days ago was returned with ageDays 180, and one created a second later,
\* listed before it, was not
C14_Witness ==
  /\ aged.called
  /\ aged.days = 180
  /\ Len(aged.snaps) = 2
  /\ aged.snaps[1].timeCreated.kind = "iso"
  /\ aged.now - InstantOf(aged.snaps[1].timeCreated) = 180 * Day - 1
  /\ aged.snaps[2].timeCreated.kind = "iso"
  /\ aged.now - InstantOf(aged.snaps[2].timeCreated) = 180 * Day
  /\ Len(aged.out) = 1
  /\ aged.out[1].ageDays = 180

\* a listing with a snapshot without timestamp and one that does not parse
\* gave an empty result
C14_WitnessUnparsable ==
  /\ aged.called
  /\ Len(aged.snaps) = 2
  /\ aged.snaps[1].timeCreated = TimeNone
  /\ aged.snaps[2].timeCreated = TimeGarbage
  /\ aged.out = <<>>

====
